---- MODULE Spec2Model ----
(***************************************************************************)
(* Intent vs RNG (src/src/App.jsx): the App component's state, its click   *)
(* handlers (runOne, runBoth, cancel, the N input) and the async           *)
(* runSession loop, which suspends at its throttled checkpoints on a       *)
(* zero-delay timer.  JavaScript runs every handler to completion, so one  *)
(* action is one macrotask: a click handler, or one timer callback that    *)
(* resumes a suspended session and runs it (and the continuation of its    *)
(* caller) up to the next await.                                           *)
(***************************************************************************)
EXTENDS Integers, Sequences, FiniteSets, TLC

\* ---------------------------------------------------------------- bounds
\* Run clicks explored in one behaviour (each click starts one invocation):
\* overlapping invocations under Spec, a single one under SessionSpec.
MaxRuns == 2
\* The values typed into the "N per session" input.
SmallN == 7
MidN == 260
MaxN == 400
NValues == {SmallN, MidN, MaxN}
\* Loop passes evaluated per recursion level of RunLoop.
Stride == 16
\* The bit source on its own: chunk sizes 1..MaxChunk, up to MaxDraws calls.
MaxChunk == 3
MaxDraws == 12
\* The statistics on their own: samples of 1..MaxStatN trials.
MaxStatN == 8

\* ------------------------------------------------------ program constants
DefaultN == 100000
MinTrials == 50
Throttle == 200
ThrottleVite == 250
ChunkSize == 65536
\* normalCdf's coefficients and 1 / sqrt(2 pi), in units of 1 / Unit (rounded
\* to four decimals).
Unit == 10000
CdfB1 == 3194
CdfB2 == 3566
CdfB3 == 17815
CdfB4 == 18213
CdfB5 == 13303
InvSqrt2Pi == 3989

\* The two copies of the program: src/src/App.jsx and the one in vite.config.js.
Builds == {"App.jsx", "vite.config.js"}

\* Entropy the buffer is filled with: three deterministic byte streams.
Sources == {"zeros", "ones", "alt"}
Kinds == {"Focus", "Control"}

VARIABLES
  build,        \* which copy of the program runs (fixed for a behaviour)
  n,            \* useState(100000): requested flips per session, a Num
  running,      \* "idle" | "focus" | "control" | "both"
  liveMsg,      \* status line
  progress,     \* progress fraction, a reduced fraction [num, den]
  results,      \* sequence of session results
  compareLine,  \* "" or the comparison of a runBoth
  error,        \* "" or the message of the caught error
  cancelRef,    \* [cancelled |-> BOOLEAN], shared by every invocation
  tasks,        \* the runOne/runBoth invocations started so far, in order
  probe         \* the object a function is applied to when it is run on its
                \* own, outside the App (<<>> while the App runs)

vars == <<build, n, running, liveMsg, progress, results, compareLine, error, cancelRef, tasks,
          probe>>

\* ------------------------------------------------------------ evaluation
\* F(x) with x evaluated once: a const binding.  (TLC passes operator
\* arguments and LET definitions unevaluated; a bound variable holds a value.)
Bind(x, F(_)) == CHOOSE r \in {F(v) : v \in {x}} : TRUE

\* ------------------------------------------------------------ arithmetic
Max(a, b) == IF a >= b THEN a ELSE b

Abs(x) == IF x < 0 THEN -x ELSE x

RECURSIVE GCD(_, _)
GCD(a, b) == IF b = 0 THEN a ELSE Bind(a % b, LAMBDA m : GCD(b, m))

\* The double a / b for integers a >= 0, b >= 0 below 2^26: two quotients are
\* the same double exactly when they are the same rational, so the value is
\* kept as the reduced fraction; 0 / 0 is NaN and a / 0 is Infinity.
Ratio(a, b) ==
  IF b = 0 THEN [num |-> IF a = 0 THEN 0 ELSE 1, den |-> 0]
  ELSE Bind(GCD(a, b), LAMBDA g : [num |-> a \div g, den |-> b \div g])

\* An integer-valued double x, kept as two limbs: x = hi * 2^16 + lo with
\* 0 <= lo < 2^16 (the values typed into the N input go beyond 2^31).
Num(x) == [hi |-> x \div 65536, lo |-> x % 65536]

\* x >= k, for a Num x and an integer 0 <= k < 2^16.
NumGeq(x, k) == x.hi > 0 \/ (x.hi = 0 /\ x.lo >= k)

\* n | 0 on an integer-valued double: ToInt32, the low 32 bits read as a signed
\* integer (the low 16 bits kept, the high half wrapped into -2^15 .. 2^15 - 1).
ToInt32(x) == x.lo + 65536 * (((x.hi + 32768) % 65536) - 32768)

\* Exact signed fractions, reduced, denominator > 0.
Rat(a, b) ==
  Bind(GCD(Abs(a), Abs(b)),
       LAMBDA g : IF b < 0 THEN [num |-> -(a \div g), den |-> -(b \div g)]
                  ELSE [num |-> a \div g, den |-> b \div g])

RatSub(x, y) == Rat(x.num * y.den - y.num * x.den, x.den * y.den)

\* -------------------------------------------------------------- bit source
\* Byte k of the stream crypto.getRandomValues draws from.
Byte(src, k) ==
  CASE src = "zeros" -> 254
    [] src = "ones" -> 255
    [] OTHER -> k % 256

\* The closure of makeBufferedRng: buf is the len bytes of the stream from
\* offset base on, idx the read cursor.
\* Mutant of refill: idx = 0 is missing.
refillKeepsCursor(rng) == [rng EXCEPT !.base = @ + rng.len, !.len = rng.size]

\* refill(): a new buffer of chunkSize fresh bytes, cursor back at 0.
refill(rng) == [rng EXCEPT !.base = @ + rng.len, !.len = rng.size, !.idx = 0]

\* makeBufferedRng(chunkSize): an empty buffer, then the constructor refills.
makeBufferedRng(src, chunkSize) ==
  refill([src |-> src, size |-> chunkSize, base |-> 0, len |-> 0, idx |-> 0])

\* Mutant of flipBit: the byte is returned without the & 1.
flipBitWholeByte(rng) ==
  [bit |-> Byte(rng.src, rng.base + rng.idx), pos |-> rng.idx, refilled |-> FALSE,
   rng |-> [rng EXCEPT !.idx = @ + 1]]

\* flipBit(): low bit of the next unread byte, cursor advanced by one.  pos
\* is the buffer position read, refilled whether refill() was called.
flipBit(rng) ==
  LET r == IF rng.idx >= rng.len THEN refill(rng) ELSE rng
  IN [bit |-> Byte(r.src, r.base + r.idx) % 2, pos |-> r.idx,
      refilled |-> rng.idx >= rng.len, rng |-> [r EXCEPT !.idx = @ + 1]]

\* --------------------------------------------------------------- statistics
NaN == [class |-> "NaN", sign |-> 0, sq |-> [num |-> 0, den |-> 0]]

Sgn(x) == IF x > 0 THEN 1 ELSE IF x < 0 THEN -1 ELSE 0

\* normalCdf(0), in units of 1 / Unit: t = 1 / (1 + 0) = 1, d = exp(0) / sqrt(2 pi),
\* poly = b1 t - b2 t^2 + b3 t^3 - b4 t^4 + b5 t^5, phi = 1 - d poly.  The
\* rounding of the seven factors moves the result by less than 10 / Unit.
normalCdfAtZero == Unit - (InvSqrt2Pi * (CdfB1 - CdfB2 + CdfB3 - CdfB4 + CdfB5)) \div Unit

\* Mutant of PAtZero: the one-tailed p, 1 - normalCdf(0).
PAtZeroOneTailed == Unit - normalCdfAtZero

\* p = 2 * (1 - normalCdf(Math.abs(z))) for z = 0, in units of 1 / Unit.
PAtZero == 2 * (Unit - normalCdfAtZero)

\* Mutant of zAndP: a continuity correction, z = (hits - 0.5 n - 0.5) / sqrt(0.25 n).
zAndPCorrected(hits, nn) ==
  LET d == 2 * hits - nn - 1
      z == IF nn = 0 THEN NaN
           ELSE [class |-> "finite", sign |-> Sgn(d), sq |-> Ratio(d * d, nn)]
  IN [z |-> z, p |-> [class |-> z.class, absz |-> z.sq]]

\* zAndP(hits, n): z = (hits - 0.5 n) / sqrt(0.25 n) is kept as its sign and
\* its exact square (2 hits - n)^2 / n; p = 2 (1 - normalCdf(|z|)) is a
\* function of |z| alone and is kept as that argument.
zAndP(hits, nn) ==
  LET d == 2 * hits - nn
      z == IF nn = 0 THEN NaN
           ELSE [class |-> "finite", sign |-> Sgn(d), sq |-> Ratio(d * d, nn)]
  IN [z |-> z, p |-> [class |-> z.class, absz |-> z.sq]]

\* rate (1 - rate) / n, one term of the squared standard error.
VarTerm(r) == Rat(r.rate.num * (r.rate.den - r.rate.num), r.rate.den * r.rate.den * r.n)

\* Mutant of diffTest: diff = Math.abs(a.rate - b.rate).
diffTestUnsigned(a, b) ==
  LET d == RatSub(a.rate, b.rate)
      diff == Rat(Abs(d.num), d.den)
      ta == VarTerm(a)
      tb == VarTerm(b)
      seZero == ta.num = 0 /\ tb.num = 0
      class == IF ~seZero THEN "finite" ELSE IF diff.num = 0 THEN "NaN" ELSE "Infinity"
  IN [diff |-> diff,
      z |-> [class |-> class, sign |-> Sgn(diff.num), diff |-> diff, se2 |-> {ta, tb}],
      p |-> [class |-> IF class = "Infinity" THEN "zero" ELSE class,
             absdiff |-> Rat(Abs(diff.num), diff.den), se2 |-> {ta, tb}]]

\* diffTest(a, b): diff exact; se = 0 makes z = diff / 0 non-finite (NaN for
\* 0 / 0, a signed Infinity otherwise, whose p is 2 (1 - 1) = 0).  A finite z is kept as
\* diff and the two terms of se^2 (their sum is commutative).
diffTest(a, b) ==
  LET diff == RatSub(a.rate, b.rate)
      ta == VarTerm(a)
      tb == VarTerm(b)
      seZero == ta.num = 0 /\ tb.num = 0
      class == IF ~seZero THEN "finite" ELSE IF diff.num = 0 THEN "NaN" ELSE "Infinity"
  IN [diff |-> diff,
      z |-> [class |-> class, sign |-> Sgn(diff.num), diff |-> diff, se2 |-> {ta, tb}],
      p |-> [class |-> IF class = "Infinity" THEN "zero" ELSE class,
             absdiff |-> Rat(Abs(diff.num), diff.den), se2 |-> {ta, tb}]]

\* ------------------------------------------------------------- runSession
\* A session is one runSession call: i = trials drawn so far (the loop index
\* at the last trial), hits, its bit source, and its position: "await"
\* (suspended in nextTick at a checkpoint), "returned" or "thrown".
\* trace and reports record what the loop did: one entry per trial, one per
\* setProgress call.  cancelReq/cancelAt record that cancel() ran while the
\* session was suspended, and at which i.
NewSession(kind, nn, src) ==
  [kind |-> kind, n |-> nn, i |-> 0, hits |-> 0, rng |-> makeBufferedRng(src, ChunkSize),
   trace |-> <<>>, reports |-> <<>>, status |-> "running",
   cancelReq |-> FALSE, cancelAt |-> 0]

\* Mutant of Trial: hits = rng() in place of hits += rng().
TrialAssigns(s) ==
  Bind(flipBit(s.rng),
       LAMBDA f : [s EXCEPT !.i = @ + 1, !.hits = f.bit, !.rng = f.rng,
                            !.trace = Append(@, [i |-> s.i + 1, bit |-> f.bit,
                                                 hits |-> f.bit])])

\* One iteration: hits += rng() at index i.
Trial(s) ==
  Bind(flipBit(s.rng),
       LAMBDA f : [s EXCEPT !.i = @ + 1, !.hits = @ + f.bit, !.rng = f.rng,
                            !.trace = Append(@, [i |-> s.i + 1, bit |-> f.bit,
                                                 hits |-> s.hits + f.bit])])

\* The throttle interval of the running copy.
Every == IF build = "vite.config.js" THEN ThrottleVite ELSE Throttle

\* Mutant of IsCheckpoint: the i === n case is missing.
IsCheckpointNoFinal(i, nn) == i % Every = 0

\* if (i % 200 === 0 || i === n)
IsCheckpoint(i, nn) == i % Every = 0 \/ i = nn

\* setProgress(i / n) and the suspension in await nextTick().
Checkpoint(s) ==
  [s EXCEPT !.reports = Append(@, [i |-> s.i, value |-> Ratio(s.i, s.n)]),
            !.status = "await"]

\* Mutant of Iterate: the await is outside the if, so every trial yields.
IterateYieldsEachTrial(s) ==
  IF s.i + 1 > s.n THEN [s EXCEPT !.status = "returned"]
  ELSE Bind(Trial(s),
            LAMBDA t : IF IsCheckpoint(t.i, t.n) THEN Checkpoint(t)
                       ELSE [t EXCEPT !.status = "await"])

\* One pass of the for loop from its condition i <= n: the loop ends and the
\* function returns, or one trial is drawn, followed at a checkpoint by the
\* progress report and the await.
Iterate(s) ==
  IF s.i + 1 > s.n THEN [s EXCEPT !.status = "returned"]
  ELSE Bind(Trial(s), LAMBDA t : IF IsCheckpoint(t.i, t.n) THEN Checkpoint(t) ELSE t)

\* At most k passes of the loop, stopping at an await or the return.
RECURSIVE RunSteps(_, _)
RunSteps(s, k) ==
  IF k = 0 \/ s.status # "running" THEN s
  ELSE Bind(Iterate(s), LAMBDA v : RunSteps(v, k - 1))

\* The loop up to the next await or the return (evaluated Stride passes at a
\* time).
RECURSIVE RunLoop(_)
RunLoop(s) ==
  IF s.status # "running" THEN s
  ELSE Bind(RunSteps(s, Stride), LAMBDA v : RunLoop(v))

\* runSession(kind, n, ...) up to its first await.
runSession(kind, nn, src) == RunLoop(NewSession(kind, nn, src))

\* Mutant of Resume: the test of the flag is inverted.
ResumeInverted(s, cancelled) ==
  IF ~cancelled THEN [s EXCEPT !.status = "thrown"]
  ELSE RunLoop([s EXCEPT !.status = "running"])

\* The timer fired: if (cancelRef.current.cancelled) throw new Error("Cancelled"),
\* else i++ and the loop goes on.
Resume(s, cancelled) ==
  IF cancelled THEN [s EXCEPT !.status = "thrown"]
  ELSE RunLoop([s EXCEPT !.status = "running"])

\* return { kind, n, hits, rate: hits / n, z, p }; by is the object's identity
\* (the invocation and the session that made it).
SessionResult(s, by) ==
  Bind(zAndP(s.hits, s.n),
       LAMBDA zp : [kind |-> s.kind, n |-> s.n, hits |-> s.hits,
                    rate |-> Ratio(s.hits, s.n), z |-> zp.z, p |-> zp.p, by |-> by])

\* ------------------------------------------------------------ App handlers
\* A status line: a fixed text, or the running tally of a session.
Msg(text) == [text |-> text, kind |-> "", i |-> 0, n |-> 0, hits |-> 0]

Tally(s) == [text |-> "tally", kind |-> s.kind, i |-> s.i, n |-> s.n, hits |-> s.hits]

\* What the handlers read and write besides n: the React state and the ref.
View ==
  [running |-> running, liveMsg |-> liveMsg, progress |-> progress, results |-> results,
   compareLine |-> compareLine, error |-> error, cancelled |-> cancelRef.cancelled]

Commit(a) ==
  /\ running' = a.running
  /\ liveMsg' = a.liveMsg
  /\ progress' = a.progress
  /\ results' = a.results
  /\ compareLine' = a.compareLine
  /\ error' = a.error
  /\ cancelRef' = [cancelled |-> a.cancelled]

reset(a) ==
  [a EXCEPT !.results = <<>>, !.compareLine = <<>>, !.progress = Ratio(0, 1),
            !.liveMsg = Msg(""), !.error = "", !.cancelled = FALSE]

cancel(a) ==
  [a EXCEPT !.cancelled = TRUE, !.liveMsg = Msg("Cancelled."), !.running = "idle"]

\* const N = Math.max(50, n | 0)
TrialCount(requested) == Max(MinTrials, ToInt32(requested))

Last(seq) == seq[Len(seq)]

\* setProgress(i / n); setLive(tally) of the checkpoint a session is suspended at.
ShowCheckpoint(a, s) == [a EXCEPT !.progress = Ratio(s.i, s.n), !.liveMsg = Tally(s)]

\* Mutant of Caught: the catch block shows the partial tally as a result.
CaughtPublishes(a, task) ==
  [a |-> [a EXCEPT !.error = "Cancelled", !.running = "idle",
                   !.results = <<SessionResult(Last(task.sess), <<0, Len(task.sess)>>)>>],
   task |-> [task EXCEPT !.pc = "failed"]]

\* catch (e) { setError(e.message) } finally { setRunning("idle") }
Caught(a, task) ==
  [a |-> [a EXCEPT !.error = "Cancelled", !.running = "idle"],
   task |-> [task EXCEPT !.pc = "failed"]]

Suspended(a, task) ==
  [a |-> ShowCheckpoint(a, Last(task.sess)), task |-> [task EXCEPT !.pc = "await"]]

\* runOne after its session moved: still suspended, returned (setResults([res]))
\* or thrown; finally setRunning("idle").
runOneCont(a, task, id) ==
  LET s == Last(task.sess)
  IN CASE s.status = "await" -> Suspended(a, task)
       [] s.status = "thrown" -> Caught(a, task)
       [] OTHER ->
            [a |-> [a EXCEPT !.results = <<SessionResult(s, <<id, 1>>)>>, !.running = "idle"],
             task |-> [task EXCEPT !.pc = "done"]]

\* Mutant of runBothFinish: a non-finite z is thrown as an error.
runBothFinishThrows(a, task, id) ==
  Bind(<<SessionResult(task.sess[1], <<id, 1>>), SessionResult(task.sess[2], <<id, 2>>)>>,
       LAMBDA fc : IF diffTest(fc[1], fc[2]).z.class # "finite"
                   THEN [a |-> [a EXCEPT !.results = <<fc[1], fc[2]>>, !.error = "NaN",
                                         !.running = "idle"],
                         task |-> [task EXCEPT !.pc = "done", !.diffCalled = TRUE]]
                   ELSE [a |-> [a EXCEPT !.results = <<fc[1], fc[2]>>,
                                         !.compareLine = <<diffTest(fc[1], fc[2])>>,
                                         !.running = "idle"],
                         task |-> [task EXCEPT !.pc = "done", !.diffCalled = TRUE]])

\* setResults([focus, control]); cmp = diffTest(focus, control); setCompareLine(...)
runBothFinish(a, task, id) ==
  Bind(<<SessionResult(task.sess[1], <<id, 1>>), SessionResult(task.sess[2], <<id, 2>>)>>,
       LAMBDA fc : [a |-> [a EXCEPT !.results = <<fc[1], fc[2]>>,
                                    !.compareLine = <<diffTest(fc[1], fc[2])>>,
                                    !.running = "idle"],
                    task |-> [task EXCEPT !.pc = "done", !.diffCalled = TRUE]])

\* runBoth after Focus returned: setProgress(0), the Control banner, and the
\* Control session up to its first await.
runBothControl(a, task, id, src) ==
  LET a1 == [a EXCEPT !.progress = Ratio(0, 1), !.liveMsg = Msg("Now Control")]
  IN Bind(runSession("Control", task.N, src),
          LAMBDA c : IF c.status = "await"
                     THEN Suspended(a1, [task EXCEPT !.sess = Append(@, c)])
                     ELSE runBothFinish(a1, [task EXCEPT !.sess = Append(@, c)], id))

\* Mutant of runBothCont: Control is started although Focus threw.
runBothContGoesOn(a, task, id, src) ==
  LET s == Last(task.sess)
  IN CASE s.status = "await" -> Suspended(a, task)
       [] Len(task.sess) = 1 -> runBothControl(a, task, id, src)
       [] s.status = "thrown" -> Caught(a, task)
       [] OTHER -> runBothFinish(a, task, id)

\* runBoth after its current session moved.
runBothCont(a, task, id, src) ==
  LET s == Last(task.sess)
  IN CASE s.status = "await" -> Suspended(a, task)
       [] s.status = "thrown" -> Caught(a, task)
       [] Len(task.sess) = 1 -> runBothControl(a, task, id, src)
       [] OTHER -> runBothFinish(a, task, id)

Cont(a, task, id, src) ==
  IF task.fn = "runOne" THEN runOneCont(a, task, id) ELSE runBothCont(a, task, id, src)

\* One invocation: requested is the n it read, N the count it passed on.
NewTask(fn, requested, nn, s) ==
  [fn |-> fn, requested |-> requested, N |-> nn, sess |-> <<s>>, pc |-> "await",
   diffCalled |-> FALSE]

\* runOne(kind) up to its first await.
runOne(a, kind, requested, id, src) ==
  LET N == TrialCount(requested)
      a1 == [reset(a) EXCEPT !.running = IF kind = "Focus" THEN "focus" ELSE "control"]
  IN Bind(runSession(kind, N, src),
          LAMBDA s : runOneCont(a1, NewTask("runOne", requested, N, s), id))

\* runBoth() up to its first await.
runBoth(a, requested, id, src) ==
  LET N == TrialCount(requested)
      a1 == [reset(a) EXCEPT !.running = "both", !.liveMsg = Msg("Focus first")]
  IN Bind(runSession("Focus", N, src),
          LAMBDA s : runBothCont(a1, NewTask("runBoth", requested, N, s), id, src))

\* ------------------------------------------------------------------ actions
Ids == 1..Len(tasks)

InFlight(t) == tasks[t].pc = "await"

\* <input onChange={(e) => setN(Number(e.target.value))}>
SetN(v) ==
  /\ v # n
  /\ n' = v
  /\ UNCHANGED <<build, running, liveMsg, progress, results, compareLine, error, cancelRef, tasks,
               probe>>

\* The Run buttons are disabled unless running = "idle".
CanRun(limit) == running = "idle" /\ TrialCount(n) <= MaxN /\ Len(tasks) < limit

RunOneClick(kind, src, limit) ==
  /\ CanRun(limit)
  /\ \E r \in {runOne(View, kind, n, Len(tasks) + 1, src)} :
       Commit(r.a) /\ tasks' = Append(tasks, r.task)
  /\ UNCHANGED <<build, n, probe>>

RunBothClick(src, limit) ==
  /\ CanRun(limit)
  /\ \E r \in {runBoth(View, n, Len(tasks) + 1, src)} :
       Commit(r.a) /\ tasks' = Append(tasks, r.task)
  /\ UNCHANGED <<build, n, probe>>

\* A session cancel() finds suspended is marked: the flag was set while it was
\* in flight.
MarkCancel(task) ==
  IF task.pc = "await" /\ ~Last(task.sess).cancelReq
  THEN [task EXCEPT !.sess[Len(task.sess)].cancelReq = TRUE,
                    !.sess[Len(task.sess)].cancelAt = Last(task.sess).i]
  ELSE task

\* The Cancel button is disabled when running = "idle".
CancelClick ==
  /\ running # "idle"
  /\ Commit(cancel(View))
  /\ tasks' = [t \in Ids |-> MarkCancel(tasks[t])]
  /\ UNCHANGED <<build, n, probe>>

\* The zero-delay timer of invocation t fires: its session resumes after the
\* await, and runs, with the continuation of its caller, to the next await.
Timer(t, src) ==
  /\ InFlight(t)
  /\ \E s \in {Resume(Last(tasks[t].sess), cancelRef.cancelled)} :
       \E r \in {Cont(View, [tasks[t] EXCEPT !.sess[Len(tasks[t].sess)] = s], t, src)} :
         Commit(r.a) /\ tasks' = [tasks EXCEPT ![t] = r.task]
  /\ UNCHANGED <<build, n, probe>>

Init ==
  /\ build = "App.jsx"
  /\ n = Num(DefaultN)
  /\ running = "idle"
  /\ liveMsg = Msg("")
  /\ progress = Ratio(0, 1)
  /\ results = <<>>
  /\ compareLine = <<>>
  /\ error = ""
  /\ cancelRef = [cancelled |-> FALSE]
  /\ tasks = <<>>
  /\ probe = <<>>

\* Overlapping invocations: up to MaxRuns Run clicks, one requested N, one
\* entropy stream.
Next ==
  \/ SetN(Num(MidN))
  \/ \E kind \in Kinds : RunOneClick(kind, "alt", MaxRuns)
  \/ RunBothClick("alt", MaxRuns)
  \/ CancelClick
  \/ \E t \in Ids : Timer(t, "alt")

Spec == Init /\ [][Next]_vars

\* The host runs every pending timer callback eventually.
TimerFairness(streams) ==
  \A t \in 1..MaxRuns : WF_vars(\E src \in streams : t \in Ids /\ Timer(t, src))

\* One invocation, in either copy of the program, with every requested N and
\* every entropy stream.
SessionInit ==
  /\ build \in Builds
  /\ n = Num(DefaultN)
  /\ running = "idle"
  /\ liveMsg = Msg("")
  /\ progress = Ratio(0, 1)
  /\ results = <<>>
  /\ compareLine = <<>>
  /\ error = ""
  /\ cancelRef = [cancelled |-> FALSE]
  /\ tasks = <<>>
  /\ probe = <<>>

SessionNext ==
  \/ \E v \in NValues : SetN(Num(v))
  \/ \E kind \in Kinds, src \in Sources : RunOneClick(kind, src, 1)
  \/ \E src \in Sources : RunBothClick(src, 1)
  \/ CancelClick
  \/ \E t \in Ids, src \in Sources : Timer(t, src)

SessionSpec == SessionInit /\ [][SessionNext]_vars

FairSessionSpec == SessionSpec /\ TimerFairness(Sources)

\* One invocation for each kind of value the N input can hold: below 1, below
\* 50, above 50, 2^31 and 2^32 + 100.
Pow31 == [hi |-> 32768, lo |-> 0]

Pow32Plus100 == [hi |-> 65536, lo |-> 100]

Inputs == {Num(0), Num(-5), Num(SmallN), Num(MidN), Pow31, Pow32Plus100}

InputNext ==
  \/ \E v \in Inputs : SetN(v)
  \/ \E kind \in Kinds : RunOneClick(kind, "alt", 1)
  \/ RunBothClick("alt", 1)
  \/ CancelClick
  \/ \E t \in Ids : Timer(t, "alt")

InputSpec == Init /\ [][InputNext]_vars

\* The App before any click, with x as the object under test.
Bench(x) ==
  /\ build = "App.jsx"
  /\ n = Num(DefaultN)
  /\ running = "idle"
  /\ liveMsg = Msg("")
  /\ progress = Ratio(0, 1)
  /\ results = <<>>
  /\ compareLine = <<>>
  /\ error = ""
  /\ cancelRef = [cancelled |-> FALSE]
  /\ tasks = <<>>
  /\ probe = x

BenchFrame ==
  UNCHANGED <<build, n, running, liveMsg, progress, results, compareLine, error, cancelRef, tasks>>

\* The bit source on its own: rng = makeBufferedRng(chunkSize), then calls of
\* rng().  The probe keeps the closure, what the last call did (bit, refilled),
\* the number of calls and of refills they made, and the positions read since
\* the last refill.
RngInit ==
  \E src \in Sources, chunkSize \in 1..MaxChunk :
    Bench([rng |-> makeBufferedRng(src, chunkSize), before |-> makeBufferedRng(src, chunkSize),
           draws |-> 0, fills |-> 0, log |-> <<>>, bit |-> 0, refilled |-> FALSE])

Flip ==
  /\ probe.draws < MaxDraws
  /\ \E f \in {flipBit(probe.rng)} :
       probe' = [rng |-> f.rng, before |-> probe.rng, draws |-> probe.draws + 1,
                 fills |-> probe.fills + (IF f.refilled THEN 1 ELSE 0),
                 log |-> IF f.refilled THEN <<f.pos>> ELSE Append(probe.log, f.pos),
                 bit |-> f.bit, refilled |-> f.refilled]
  /\ BenchFrame

RngNext == Flip

RngSpec == RngInit /\ [][RngNext]_vars

\* The statistics on their own.  A sample is a tally (hits of n trials); the
\* inputs are the small tallies and the one of the self-test, half of the
\* default n.
Tallies ==
  {[hits |-> h, n |-> m] : h \in 0..MaxStatN, m \in 1..MaxStatN} \cup
  {[hits |-> DefaultN \div 2, n |-> DefaultN]}

Samples == {s \in Tallies : s.hits <= s.n}

\* The SessionResult a session with this tally returns.
ResultOf(kind, s) == SessionResult([kind |-> kind, n |-> s.n, hits |-> s.hits], <<0, 0>>)

StatInit == \E a \in Samples, b \in Samples : Bench([a |-> a, b |-> b, fn |-> "", out |-> <<>>])

\* zAndP on sample a and on its mirror image (n - hits hits).
OneSample ==
  /\ probe.fn = ""
  /\ probe' = [probe EXCEPT !.fn = "zAndP",
                            !.out = <<zAndP(probe.a.hits, probe.a.n),
                                      zAndP(probe.a.n - probe.a.hits, probe.a.n)>>]
  /\ BenchFrame

\* diffTest on the results of samples a and b, in both orders.
TwoSample ==
  /\ probe.fn = ""
  /\ probe' = [probe EXCEPT !.fn = "diffTest",
                            !.out = <<diffTest(ResultOf("Focus", probe.a), ResultOf("Control", probe.b)),
                                      diffTest(ResultOf("Control", probe.b), ResultOf("Focus", probe.a))>>]
  /\ BenchFrame

StatNext == OneSample \/ TwoSample

StatSpec == StatInit /\ [][StatNext]_vars

\* ================================================================== claims
\* The sessions started so far: <<t, k>> is session k of invocation t.
Sessions == {tk \in (1..MaxRuns) \X (1..2) : tk[1] \in Ids /\ tk[2] <= Len(tasks[tk[1]].sess)}

Sess(tk) == tasks[tk[1]].sess[tk[2]]

\* A result of session tk is in results.
Published(tk) == \E j \in 1..Len(results) : results[j].by = tk

BothTasks == {t \in Ids : tasks[t].fn = "runBoth"}

\* C1: a session that was in flight when cancel() set the flag draws at most
\* one more throttle interval of trials, never returns, and no result of it
\* reaches results.
C1_CancelStopsSession ==
  \A tk \in Sessions :
    Sess(tk).cancelReq =>
      /\ Sess(tk).status # "returned"
      /\ Sess(tk).i <= Sess(tk).cancelAt + Every
      /\ ~Published(tk)

\* C2: the flag never goes from true to false while a session that was in
\* flight when it was set is still in flight.
C2_FlagSticky ==
  [][(cancelRef.cancelled /\ ~cancelRef'.cancelled) =>
       ~\E t \in Ids : tasks[t].pc = "await" /\ Last(tasks[t].sess).cancelReq]_vars

\* C3: a runBoth one of whose sessions was cancelled (cancel() ran while the
\* session was in flight, or the session aborted with "Cancelled") is aborted
\* as a whole: it never calls diffTest and no result of it reaches results;
\* results holds both sessions of a comparison or neither.
C3_Cancelled(t) ==
  \E k \in 1..Len(tasks[t].sess) :
    tasks[t].sess[k].cancelReq \/ tasks[t].sess[k].status = "thrown"

C3_ComparisonAborted ==
  \A t \in BothTasks :
    /\ C3_Cancelled(t) =>
         ~tasks[t].diffCalled /\ ~Published(<<t, 1>>) /\ ~Published(<<t, 2>>)
    /\ Published(<<t, 1>>) <=> Published(<<t, 2>>)

\* C4: in one runBoth the Focus session has returned, with all its trials
\* drawn, before Control draws its first trial; the two are never suspended
\* together, and Control is not started unless Focus returned.
C4_FocusBeforeControl ==
  \A t \in BothTasks :
    /\ tasks[t].sess[1].kind = "Focus"
    /\ Len(tasks[t].sess) = 2 =>
         /\ tasks[t].sess[2].kind = "Control"
         /\ tasks[t].sess[1].status = "returned"
         /\ tasks[t].sess[1].i = tasks[t].sess[1].n
         /\ Len(tasks[t].sess[1].trace) = tasks[t].sess[1].n
    /\ tasks[t].sess[1].status # "returned" => Len(tasks[t].sess) = 1

\* C4 witness: Control is suspended with trials drawn, after Focus returned.
C4_Witness ==
  \E t \in BothTasks :
    /\ Len(tasks[t].sess) = 2
    /\ tasks[t].sess[2].status = "await"
    /\ tasks[t].sess[2].i > 0

\* C5: a session throws only on reading the flag as true, and the step in
\* which it throws leaves results empty, sets error to "Cancelled" and running
\* to "idle"; no result of the session is ever in results.
C5_Thrown(t) == tasks[t].pc = "failed"

C5_CancelledDiscardsTally ==
  /\ [](\A tk \in Sessions : Sess(tk).status = "thrown" => ~Published(tk))
  /\ [][\A t \in Ids :
         (~C5_Thrown(t) /\ C5_Thrown(t)') =>
            /\ cancelRef.cancelled
            /\ Last(tasks'[t].sess).status = "thrown"
            /\ results = <<>> /\ results' = <<>>
            /\ error' = "Cancelled"
            /\ running' = "idle"]_vars

\* C5 witness: an invocation ended by "Cancelled" in the middle of its trials.
C5_Witness ==
  \E t \in Ids :
    /\ tasks[t].pc = "failed"
    /\ Last(tasks[t].sess).i < Last(tasks[t].sess).n
    /\ error = "Cancelled" /\ results = <<>> /\ running = "idle"

\* The 1-bits among the draws of a session.
Ones(s) == Cardinality({j \in 1..Len(s.trace) : s.trace[j].bit = 1})

\* C6: a returned session drew exactly n bits, the bits of its entropy
\* stream in order, and its result has n = n, hits = the number of 1-bits
\* among them (0 <= hits <= n) and rate = hits / n.
C6_ResultOf(tk) ==
  LET s == Sess(tk)
      r == SessionResult(s, tk)
  IN /\ s.n >= 1
     /\ Len(s.trace) = s.n
     /\ s.rng.idx = s.n
     /\ \A j \in 1..Len(s.trace) : s.trace[j].bit = Byte(s.rng.src, j - 1) % 2
     /\ r.n = s.n
     /\ r.hits = Ones(s)
     /\ 0 <= r.hits /\ r.hits <= r.n
     /\ r.rate.den > 0
     /\ r.rate.num * r.n = r.hits * r.rate.den

C6_ResultTally ==
  /\ \A tk \in Sessions : Sess(tk).status = "returned" => C6_ResultOf(tk)
  /\ \A j \in 1..Len(results) :
       /\ results[j].by \in Sessions
       /\ Sess(results[j].by).status = "returned"
       /\ results[j] = SessionResult(Sess(results[j].by), results[j].by)

\* C6 witness: a published result with some hits and some misses.
C6_Witness ==
  \E j \in 1..Len(results) : 0 < results[j].hits /\ results[j].hits < results[j].n

\* C7: the trials of a session are indexed 1, 2, ..., one bit drawn from the
\* source per index, and the hit count after each trial is the one before
\* plus that bit, 0 or 1, so it never decreases and never exceeds the index.
C7_TrialsSequential ==
  \A tk \in Sessions :
    LET s == Sess(tk)
    IN /\ Len(s.trace) = s.i
       /\ s.i <= s.n
       /\ s.rng.idx = s.i
       /\ s.hits = IF s.i = 0 THEN 0 ELSE s.trace[s.i].hits
       /\ s.status = "returned" => s.i = s.n
       /\ \A j \in 1..Len(s.trace) :
            /\ s.trace[j].i = j
            /\ s.trace[j].bit \in {0, 1}
            /\ s.trace[j].hits = (IF j = 1 THEN 0 ELSE s.trace[j - 1].hits) + s.trace[j].bit
            /\ s.trace[j].hits <= j

\* C7 witness: a session that drew all its trials, a miss followed by a hit
\* followed by a miss among them.
C7_Witness ==
  \E tk \in Sessions :
    /\ Sess(tk).i = Sess(tk).n
    /\ \E j \in 1..(Sess(tk).n - 2) :
         /\ Sess(tk).trace[j].bit = 0
         /\ Sess(tk).trace[j + 1].bit = 1
         /\ Sess(tk).trace[j + 2].bit = 0

\* C8: a session has reported progress exactly at the indices drawn so far
\* that are multiples of the throttle interval or equal to n; each value is
\* i / n, in (0, 1], the values increase strictly, and the last one of a
\* session that drew n trials is 1.
C8_ProgressReports ==
  \A tk \in Sessions :
    LET s == Sess(tk)
        rp == s.reports
    IN /\ {rp[j].i : j \in 1..Len(rp)} = {c \in 1..s.i : c % Every = 0 \/ c = s.n}
       /\ \A j \in 1..Len(rp) :
            /\ rp[j].value.den > 0
            /\ rp[j].value.num * s.n = rp[j].i * rp[j].value.den
            /\ 0 < rp[j].value.num /\ rp[j].value.num <= rp[j].value.den
       /\ \A j \in 1..(Len(rp) - 1) :
            /\ rp[j].i < rp[j + 1].i
            /\ rp[j].value.num * rp[j + 1].value.den < rp[j + 1].value.num * rp[j].value.den
       /\ s.i = s.n => Len(rp) >= 1 /\ Last(rp).value = [num |-> 1, den |-> 1]

\* C8 witness: a session that reported at a multiple of the interval, and last
\* at i = n, which is no multiple.
C8_Witness ==
  \E tk \in Sessions :
    /\ Len(Sess(tk).reports) >= 2
    /\ Sess(tk).reports[1].i = Every
    /\ Last(Sess(tk).reports).i = Sess(tk).n
    /\ Sess(tk).n % Every # 0

\* C9: whenever a handler can run, every session in flight is suspended at a
\* checkpoint it has reported (no session is between two trials), cancel()
\* finds it there, and a session that aborted drew a checkpoint's number of
\* trials.
C9_AtCheckpoint(s, i) == i >= 1 /\ (i % Every = 0 \/ i = s.n)

C9_YieldOnlyAtCheckpoints ==
  \A tk \in Sessions :
    LET s == Sess(tk)
    IN /\ s.status \in {"await", "returned", "thrown"}
       /\ s.status \in {"await", "thrown"} =>
            C9_AtCheckpoint(s, s.i) /\ Len(s.reports) >= 1 /\ Last(s.reports).i = s.i
       /\ s.cancelReq => C9_AtCheckpoint(s, s.cancelAt)

\* C9 witness: a session aborted at its first checkpoint, before trial n.
C9_Witness ==
  \E tk \in Sessions :
    /\ Sess(tk).status = "thrown"
    /\ Sess(tk).i = Every
    /\ Sess(tk).i < Sess(tk).n

\* C10: with the timers run fairly every session that is in flight ends; a
\* session throws only on reading the flag as true, one that reads it as
\* false goes on, and a session that returned drew exactly n trials.
C10_InFlight(t, k) == <<t, k>> \in Sessions /\ Sess(<<t, k>>).status = "await"

C10_SessionsEnd ==
  /\ \A t \in 1..MaxRuns, k \in 1..2 : C10_InFlight(t, k) ~> ~C10_InFlight(t, k)
  /\ [](\A tk \in Sessions :
         /\ Sess(tk).status = "returned" =>
              Sess(tk).i = Sess(tk).n /\ Len(Sess(tk).trace) = Sess(tk).n
         /\ Sess(tk).status # "await" /\ Sess(tk).i < Sess(tk).n =>
              Sess(tk).status = "thrown")
  /\ [][\A tk \in Sessions :
         Sess(tk).status = "await"
           /\ (Sess(tk)'.status # "await" \/ Sess(tk)'.i # Sess(tk).i) =>
           IF cancelRef.cancelled
           THEN Sess(tk)'.status = "thrown" /\ Sess(tk)'.i = Sess(tk).i
           ELSE \/ Sess(tk)'.status = "returned" /\ Sess(tk).i = Sess(tk).n
                \/ Sess(tk)'.status = "await" /\ Sess(tk)'.i > Sess(tk).i]_vars

\* C10 witness: a session that returned after several checkpoints.
C10_Witness ==
  \E tk \in Sessions :
    /\ Sess(tk).status = "returned"
    /\ Len(Sess(tk).reports) >= 2

\* C11: the count an invocation passes to runSession is max(50, n) for the
\* n it read: at least 50, n itself when n >= 50 (whatever its size), and
\* 50 otherwise.
C11_ClampedCount ==
  \A t \in Ids :
    /\ tasks[t].N >= MinTrials
    /\ tasks[t].sess[1].n = tasks[t].N
    /\ IF NumGeq(tasks[t].requested, MinTrials)
       THEN Num(tasks[t].N) = tasks[t].requested
       ELSE tasks[t].N = MinTrials

\* C12: a step in which a session runs leaves the flag as it was; the flag
\* becomes true only in cancel(); and while a session is in flight no step
\* but cancel() changes the flag.
C12_CancelStep ==
  /\ running # "idle" /\ running' = "idle"
  /\ cancelRef'.cancelled
  /\ liveMsg' = Msg("Cancelled.")
  /\ tasks' = [t \in Ids |-> MarkCancel(tasks[t])]

C12_SessionRan ==
  \E tk \in Sessions : Sess(tk)'.i # Sess(tk).i \/ Sess(tk)'.status # Sess(tk).status

C12_FlagFrame ==
  [][/\ C12_SessionRan => cancelRef' = cancelRef
     /\ (~cancelRef.cancelled /\ cancelRef'.cancelled) => C12_CancelStep
     /\ (cancelRef' # cancelRef /\ \E t \in Ids : InFlight(t)) => C12_CancelStep]_vars

\* C13: every call returns the low bit of the next unread byte of the stream
\* and advances the cursor by one; 0 <= idx <= chunkSize; a call refills
\* exactly when the cursor had reached the buffer length, and the refill puts
\* the cursor back to 0; the positions read since the last refill are
\* 0, 1, 2, ..., each once.
C13_NoByteReused ==
  LET r == probe.rng
  IN /\ 0 <= r.idx /\ r.idx <= r.size
     /\ r.len = r.size
     /\ probe.log = [j \in 1..Len(probe.log) |-> j - 1]
     /\ Len(probe.log) = r.idx
     /\ probe.draws = probe.fills * r.size + r.idx
     /\ probe.draws > 0 =>
          /\ probe.bit \in {0, 1}
          /\ probe.bit = Byte(r.src, probe.draws - 1) % 2
          /\ probe.refilled <=> probe.before.idx = probe.before.len
          /\ probe.refilled => r.idx = 1
          /\ ~probe.refilled => r.idx = probe.before.idx + 1

\* C13 witness: the buffer of more than one byte was refilled twice and read
\* again after the second refill.
C13_Witness ==
  /\ probe.rng.size >= 2
  /\ probe.fills >= 2
  /\ probe.rng.idx >= 2

\* C14: a runBoth whose two sessions both returned with rate 0 or 1 has
\* finished: diffTest was called and gave a non-finite z (NaN or an
\* Infinity), results = [focus, control], compareLine holds the comparison,
\* error is empty and running is "idle".
C14_Degenerate(s) == s.status = "returned" /\ (s.hits = 0 \/ s.hits = s.n)

C14_DegenerateIsValue ==
  \A t \in BothTasks :
    (Len(tasks[t].sess) = 2 /\ C14_Degenerate(tasks[t].sess[1])
       /\ C14_Degenerate(tasks[t].sess[2])) =>
      /\ tasks[t].pc = "done" /\ tasks[t].diffCalled
      /\ results = <<SessionResult(tasks[t].sess[1], <<t, 1>>),
                     SessionResult(tasks[t].sess[2], <<t, 2>>)>>
      /\ compareLine = <<diffTest(results[1], results[2])>>
      /\ compareLine[1].z.class \in {"NaN", "Infinity"}
      /\ compareLine[1].z.class = "NaN" <=> results[1].hits = results[2].hits
      /\ error = ""
      /\ running = "idle"

\* C14 witness: a finished comparison of an all-misses Focus session with an
\* all-hits Control session: z is -Infinity.
C14_Witness ==
  /\ Len(results) = 2 /\ results[1].hits = 0 /\ results[2].hits = results[2].n
  /\ compareLine # <<>> /\ compareLine[1].z.class = "Infinity"
  /\ compareLine[1].z.sign = -1

\* C15: no invocation runs a session for a requested n < 1 (so no result is
\* produced for it), and every session runs with the count its caller passed.
C15_InvalidRejected ==
  \A t \in Ids :
    /\ NumGeq(tasks[t].requested, 1)
    /\ \A k \in 1..Len(tasks[t].sess) : tasks[t].sess[k].n = tasks[t].N

\* C16: for even n > 0, zAndP(n / 2, n) has z = 0 exactly, and its p, the
\* value of 2 (1 - normalCdf(0)), is above 0.99 and at most 1.01.
C16_HalfHitsIsNull ==
  (probe.fn = "zAndP" /\ 2 * probe.a.hits = probe.a.n) =>
    /\ probe.out[1].z = [class |-> "finite", sign |-> 0, sq |-> [num |-> 0, den |-> 1]]
    /\ probe.out[1].p = [class |-> "finite", absz |-> [num |-> 0, den |-> 1]]
    /\ 100 * PAtZero > 99 * Unit
    /\ 100 * PAtZero <= 101 * Unit

\* C16 witness: zAndP was applied to the self-test's tally, 50000 of 100000.
C16_Witness ==
  /\ probe.fn = "zAndP"
  /\ probe.a = [hits |-> DefaultN \div 2, n |-> DefaultN]
  /\ probe.out[1].z.sign = 0

\* C17: for n > 0 and 0 <= hits <= n, the z of zAndP(hits, n) is the
\* negation of the z of zAndP(n - hits, n), and the two p are the same.
C17_OneSampleSymmetry ==
  probe.fn = "zAndP" =>
    /\ probe.out[1].z.class = "finite"
    /\ probe.out[1].z = [probe.out[2].z EXCEPT !.sign = -@]
    /\ probe.out[1].p = probe.out[2].p

\* C17 witness: a tally above one half, z > 0, whose mirror image has z < 0.
C17_Witness ==
  /\ probe.fn = "zAndP"
  /\ 2 * probe.a.hits > probe.a.n
  /\ probe.out[1].z.sign = 1 /\ probe.out[2].z.sign = -1

\* C18: for two results with non-zero standard error, diffTest(b, a) has the
\* diff and the z of diffTest(a, b) negated and the same p; diff is
\* a.rate - b.rate, positive exactly when a.rate > b.rate.
C18_Neg(q) == [q EXCEPT !.num = -@]

C18_TwoSampleAntisymmetry ==
  (probe.fn = "diffTest" /\ probe.out[1].z.class = "finite") =>
    LET ab == probe.out[1]
        ba == probe.out[2]
        a == Ratio(probe.a.hits, probe.a.n)
        b == Ratio(probe.b.hits, probe.b.n)
    IN /\ ba.z.class = "finite"
       /\ ba.diff = C18_Neg(ab.diff)
       /\ ba.z = [ab.z EXCEPT !.sign = -@, !.diff = C18_Neg(@)]
       /\ ba.p = ab.p
       /\ ab.diff.den > 0
       /\ ab.diff.num * a.den * b.den = (a.num * b.den - b.num * a.den) * ab.diff.den
       /\ ab.diff.num > 0 <=> a.num * b.den > b.num * a.den

\* C18 witness: the first sample has the higher rate, the standard error is
\* not 0, and the two orders give diffs of opposite sign.
C18_Witness ==
  /\ probe.fn = "diffTest"
  /\ probe.out[1].z.class = "finite"
  /\ probe.out[1].diff.num > 0 /\ probe.out[2].diff.num < 0

\* C19: at most one session is in flight (started, neither returned nor
\* thrown) in any reachable state.
C19_OneSessionInFlight ==
  Cardinality({tk \in Sessions : Sess(tk).status = "await"}) <= 1

\* C20: while a session is in flight running is not "idle"; running is "idle"
\* only when none is.
C20_RunningReflectsActivity ==
  (\E tk \in Sessions : Sess(tk).status = "await") => running # "idle"

\* C21: when compareLine is set, results is the Focus result followed by the
\* Control result of one runBoth invocation, and compareLine is the
\* comparison that invocation computed from them; a single result is never
\* shown with a comparison line.
C21_DisplayConsistent ==
  compareLine # <<>> =>
    /\ Len(results) = 2
    /\ results[1].kind = "Focus" /\ results[2].kind = "Control"
    /\ \E t \in BothTasks :
         /\ tasks[t].diffCalled
         /\ results[1].by = <<t, 1>> /\ results[2].by = <<t, 2>>
    /\ compareLine = <<diffTest(results[1], results[2])>>

\* C22: a session for which the flag became true while it was suspended at
\* the checkpoint i = n never returns and no result of it reaches results;
\* a session returns only in a step that reads the flag as false after the
\* yield at i = n.
C22_FinalCheckpointCancels ==
  /\ [](\A tk \in Sessions :
         (Sess(tk).cancelReq /\ Sess(tk).cancelAt = Sess(tk).n) =>
           Sess(tk).status # "returned" /\ ~Published(tk))
  /\ [][\A tk \in Sessions :
         (Sess(tk).status # "returned" /\ Sess(tk)'.status = "returned") =>
           /\ Sess(tk).status = "await" /\ Sess(tk).i = Sess(tk).n
           /\ ~cancelRef.cancelled]_vars

====
